---- MODULE Spec2Model ----
(***************************************************************************)
(* Model of the pass generation engine (init / generatePass and the        *)
(* descriptor override filter and merger).                                 *)
(*                                                                         *)
(* JavaScript values are tagged records [t, v]; JSON texts are records     *)
(* [valid, ws, pairs]; file names are sequences of one-character strings   *)
(* so that charAt and the exclusion regular expression are computed.       *)
(***************************************************************************)
EXTENDS Integers, Sequences, FiniteSets, TLC

----------------------------------------------------------------------------
(* Bounds *)

\* number of init invocations the environment may issue
MaxInit == 2
\* number of generatePass invocations the environment may issue
MaxGen == 1

InitIds == 1..MaxInit
GenIds == 1..MaxGen

\* the generatePass invocations the state has room for, and the two that
\* run side by side in SpecPair
GenDom == 1..(MaxGen + 1)
PairIds == {1, 2}

----------------------------------------------------------------------------
(* JavaScript values *)

Undefined == [t |-> "undefined", v |-> "undefined"]
Null == [t |-> "null", v |-> "null"]
JStr(s) == [t |-> "string", v |-> s]
JNum(s) == [t |-> "number", v |-> s]

\* ToBoolean, as applied by `!!query[key]` and `!options.modelName`
Truthy(x) ==
    /\ x.t \notin {"undefined", "null"}
    /\ ~(x.t = "string" /\ x.v = "")
    /\ ~(x.t = "number" /\ x.v \in {"0", "NaN"})
    /\ ~(x.t = "boolean" /\ x.v = "false")

\* the value JSON.stringify writes for a property value
ToJSONValue(x) ==
    IF x.t = "number" /\ x.v \in {"NaN", "Infinity"} THEN Null ELSE x

\* does JSON.stringify write the property at all
Serializable(x) == x.t # "undefined"

\* property read on a plain object: a missing key reads as undefined
Get(obj, k) == IF k \in DOMAIN obj THEN obj[k] ELSE Undefined

----------------------------------------------------------------------------
(* Ordered objects: sequences of <<key, value>> with distinct keys, in     *)
(* insertion order (the order JSON.stringify and for-in enumerate).        *)

Keys(o) == {o[i][1] : i \in 1..Len(o)}

HasKey(o, k) == \E i \in 1..Len(o) : o[i][1] = k

Lookup(o, k) ==
    IF HasKey(o, k)
    THEN o[CHOOSE i \in 1..Len(o) : o[i][1] = k][2]
    ELSE Undefined

\* obj[k] = v : an existing key keeps its position, a new key is appended
Assign(o, k, v) ==
    IF HasKey(o, k)
    THEN [i \in 1..Len(o) |-> IF o[i][1] = k THEN <<k, v>> ELSE o[i]]
    ELSE Append(o, <<k, v>>)

RECURSIVE AssignAll(_, _)
AssignAll(o, ps) ==
    IF ps = <<>> THEN o
    ELSE AssignAll(Assign(o, Head(ps)[1], Head(ps)[2]), Tail(ps))

----------------------------------------------------------------------------
(* JSON texts *)

JSONText(ws, pairs) == [valid |-> TRUE, ws |-> ws, pairs |-> pairs]
BadText == [valid |-> FALSE, ws |-> 0, pairs |-> <<>>]

\* JSON.parse of a valid text: a repeated member name keeps the last value
JSONparse(text) == AssignAll(<<>>, text.pairs)

RECURSIVE StringifyPairs(_)
StringifyPairs(o) ==
    IF o = <<>> THEN <<>>
    ELSE IF Serializable(Head(o)[2])
         THEN <<<<Head(o)[1], ToJSONValue(Head(o)[2])>>>> \o StringifyPairs(Tail(o))
         ELSE StringifyPairs(Tail(o))

\* JSON.stringify of an object: no insignificant whitespace
JSONstringify(o) == JSONText(0, StringifyPairs(o))

----------------------------------------------------------------------------
(* File names *)

Lower(c) ==
    CASE c = "M" -> "m"
      [] c = "P" -> "p"
      [] c = "S" -> "s"
      [] OTHER -> c

LowerAll(name) == [i \in 1..Len(name) |-> Lower(name[i])]

\* pat occurs in name as a contiguous substring
Contains(name, pat) ==
    \E i \in 1..(Len(name) - Len(pat) + 1) :
        SubSeq(name, i, i + Len(pat) - 1) = pat

PatManifest == <<"m","a","n","i","f","e","s","t">>
PatSignature == <<"s","i","g","n","a","t","u","r","e">>
PatPass == <<"p","a","s","s">>

excludedName_cs(file) ==
    \E pat \in {PatManifest, PatSignature, PatPass} : Contains(file, pat)

\* /(manifest|signature|pass)/ig.test(file), on a fresh RegExp object
excludedName(file) ==
    \E pat \in {PatManifest, PatSignature, PatPass} :
        Contains(LowerAll(file), pat)

charAt0(e) == IF Len(e) > 0 THEN e[1] ELSE ""

removeHiddenFiles_none(from) == from

removeHiddenFiles(from) == SelectSeq(from, LAMBDA e : charAt0(e) # ".")

Includes(list, e) == \E i \in 1..Len(list) : list[i] = e

PassJson == <<"p","a","s","s",".","j","s","o","n">>
ManifestJson == <<"m","a","n","i","f","e","s","t",".","j","s","o","n">>
SignatureName == <<"s","i","g","n","a","t","u","r","e">>

----------------------------------------------------------------------------
(* Descriptor override filter *)

\* Object.keys(supportedOptions), in declaration order, with the validator
\* registered for each key (all null)
supportedOptions ==
    << <<"serialNumber", Null>>, <<"userInfo", Null>>,
       <<"expirationDate", Null>>, <<"locations", Null>>,
       <<"authenticationToken", Null>>, <<"barcode", Null>> >>

\* a query is [present, obj]: `options.overrides` may be undefined
NoQuery == [present |-> FALSE, obj |-> <<>>]
Query(obj) == [present |-> TRUE, obj |-> obj]

\* `query[key]` throws a TypeError when query is undefined
filterThrows(query) == ~query.present

\* the condition of the inner if: no validator, or not a function, or a
\* function that accepts the value
validatorAccepts(validator, value) ==
    \/ ~Truthy(validator)
    \/ validator.t # "function"
    \/ (validator.t = "function" /\ validator.v = "accept")

RECURSIVE filterFrom(_, _)
filterFrom(supported, obj) ==
    IF supported = <<>> THEN <<>>
    ELSE LET key == Head(supported)[1]
             validator == Head(supported)[2]
             rest == filterFrom(Tail(supported), obj)
         IN IF Truthy(Get(obj, key)) /\ validatorAccepts(validator, Get(obj, key))
            THEN <<<<key, Get(obj, key)>>>> \o rest
            ELSE rest

filterPassOptions_all(query) ==
    LET ks == DOMAIN query.obj
        RECURSIVE take(_)
        take(S) == IF S = {} THEN <<>>
                   ELSE LET k == CHOOSE x \in S : TRUE
                        IN <<<<k, query.obj[k]>>>> \o take(S \ {k})
    IN take(ks)

\* the filtered options object, as an ordered object
filterPassOptions(query) == filterFrom(supportedOptions, query.obj)

----------------------------------------------------------------------------
(* Descriptor merger *)

JObj(o) == [t |-> "object", v |-> o]
JBuffer(text) == [t |-> "buffer", v |-> text]

Resolved(value) == [state |-> "resolved", value |-> value, reason |-> "none"]
Rejected(reason) == [state |-> "rejected", value |-> Undefined, reason |-> reason]

editPassStructure_baseWins(options, passBuffer) ==
    IF ~Truthy(options) THEN Resolved(passBuffer)
    ELSE IF passBuffer.t # "buffer" THEN Rejected("TypeError")
    ELSE IF ~passBuffer.v.valid THEN Rejected("SyntaxError")
    ELSE Resolved(JBuffer(JSONstringify(
            AssignAll(options.v, JSONparse(passBuffer.v)))))

editPassStructure_deep(options, passBuffer) ==
    LET RECURSIVE mergeAll(_, _)
        mergeAll(o, ps) ==
            IF ps = <<>> THEN o
            ELSE LET k == Head(ps)[1]
                     v == Head(ps)[2]
                     old == Lookup(o, k)
                 IN mergeAll(IF old.t = "object" /\ v.t = "object"
                             THEN Assign(o, k, [t |-> "object", v |-> AssignAll(old.v, v.v)])
                             ELSE Assign(o, k, v),
                             Tail(ps))
    IN IF ~Truthy(options) THEN Resolved(passBuffer)
       ELSE IF passBuffer.t # "buffer" THEN Rejected("TypeError")
       ELSE IF ~passBuffer.v.valid THEN Rejected("SyntaxError")
       ELSE Resolved(JBuffer(JSONstringify(mergeAll(JSONparse(passBuffer.v), options.v))))

\* the settled state of the promise editPassStructure returns
editPassStructure(options, passBuffer) ==
    IF ~Truthy(options) THEN Resolved(passBuffer)
    ELSE IF passBuffer.t # "buffer" THEN Rejected("TypeError")
    ELSE IF ~passBuffer.v.valid THEN Rejected("SyntaxError")
    ELSE Resolved(JBuffer(JSONstringify(
            AssignAll(JSONparse(passBuffer.v), options.v))))

----------------------------------------------------------------------------
(* State *)

VARIABLES
    Certificates,   \* the module-level Certificates object
    Configuration,  \* the module-level Configuration object
    inits,          \* one record per init invocation
    gens,           \* one record per generatePass invocation
    crashed,        \* an exception escaped to the event loop
    mQuery, mBase, mOpts, mOut, mPc,  \* one filter + merge evaluation
    uniqueKeys, fields,               \* one FieldsContainer
    returned, lastCall, calls         \* what its last method call was and returned

engineVars == <<Certificates, Configuration, inits, gens, crashed>>
mergeVars == <<mQuery, mBase, mOpts, mOut, mPc>>
fieldVars == <<uniqueKeys, fields, returned, lastCall, calls>>
vars == <<Certificates, Configuration, inits, gens, crashed,
          mQuery, mBase, mOpts, mOut, mPc,
          uniqueKeys, fields, returned, lastCall, calls>>

----------------------------------------------------------------------------
(* Inputs of the filter and the merger *)

RecognizedKeys == {supportedOptions[i][1] : i \in 1..Len(supportedOptions)}

\* keys a caller may send: two recognized ones and one that is not
OverrideKeys == {"serialNumber", "barcode", "webServiceURL"}

\* values a caller may send: falsy ones, plain ones, a number that JSON
\* cannot represent, and an object (its members are JSON strings)
OverrideValues ==
    {JNum("0"), JStr(""), JStr("A"), JNum("Infinity"),
     JObj(<< <<"message", JStr("x")>> >>)}

OverrideObjects ==
    UNION {[ks -> OverrideValues] : ks \in SUBSET OverrideKeys}

Queries == {NoQuery} \cup {Query(o) : o \in OverrideObjects}

BasePairs == << <<"serialNumber", JStr("B")>>, <<"webServiceURL", JStr("U")>> >>

\* contents pass.json may have
TextCompact == JSONText(0, BasePairs)
TextSpaced == JSONText(1, BasePairs)
TextRepeated == JSONText(0, BasePairs \o << <<"serialNumber", JStr("C")>> >>)
TextEmptyObject == JSONText(0, <<>>)
TextNested ==
    JSONText(0, BasePairs \o
        << <<"barcode", JObj(<< <<"format", JStr("QR")>>, <<"message", JStr("m")>> >>)>> >>)

BaseBuffers ==
    {JBuffer(TextCompact), JBuffer(TextSpaced), JBuffer(TextRepeated),
     JBuffer(TextEmptyObject), JBuffer(TextNested), JBuffer(BadText), Undefined}

----------------------------------------------------------------------------
(* One evaluation of editPassStructure(filterPassOptions(q), buffer) *)

NotStarted == [state |-> "pending", value |-> Undefined, reason |-> "none"]

MergeFilter ==
    /\ mPc = "start"
    /\ IF filterThrows(mQuery)
       THEN /\ mPc' = "threw"
            /\ mOpts' = mOpts
       ELSE /\ mPc' = "filtered"
            /\ mOpts' = JObj(filterPassOptions(mQuery))
    /\ UNCHANGED <<mQuery, mBase, mOut>>
    /\ UNCHANGED engineVars
    /\ UNCHANGED fieldVars

MergeEdit ==
    /\ mPc = "filtered"
    /\ mOut' = editPassStructure(mOpts, mBase)
    /\ mPc' = "done"
    /\ UNCHANGED <<mQuery, mBase, mOpts>>
    /\ UNCHANGED engineVars
    /\ UNCHANGED fieldVars

----------------------------------------------------------------------------
(* Configuration objects handed to init *)

reqFilesKeys == <<"wwdr", "signerCert", "signerKey">>
Roles == {reqFilesKeys[i] : i \in 1..Len(reqFilesKeys)}

\* nonEmpty : the object has keys;  filesOk : certificates.dir is accessible
\* and certificates.files / credentials are all given;  marker : what each
\* configured file contains;  secretOk : the passphrase decrypts the key
cfgGood ==
    [nonEmpty |-> TRUE, filesOk |-> TRUE, secretOk |-> TRUE,
     marker |-> [r \in Roles |-> IF r = "signerKey" THEN "PRIVATE KEY" ELSE "CERTIFICATE"]]
cfgEmpty == [cfgGood EXCEPT !.nonEmpty = FALSE]
cfgNoFiles == [cfgGood EXCEPT !.filesOk = FALSE]
cfgWrongSecret == [cfgGood EXCEPT !.secretOk = FALSE]
cfgNotPem == [cfgGood EXCEPT !.marker["wwdr"] = "none"]

Configs == {cfgGood, cfgEmpty, cfgNoFiles, cfgWrongSecret, cfgNotPem}

ModelsDir == "models"

Absent == [kind |-> "absent", from |-> "none"]

\* what the callback of contents.map returns for the file read for role r
parseFile(cfg, r) ==
    IF cfg.marker[r] = "PRIVATE KEY"
    THEN IF cfg.secretOk THEN [kind |-> "key", from |-> r]
         ELSE [kind |-> "null", from |-> r]
    ELSE [kind |-> "cert", from |-> r]

\* the callback of contents.map throws on a file with neither marker
mapThrows(cfg) == \E r \in Roles : cfg.marker[r] \notin {"PRIVATE KEY", "CERTIFICATE"}

\* async.concat hands over the contents either in the order of certPaths or
\* in the order the reads completed, depending on the library release
concatOrders(completion) == {reqFilesKeys, completion}

InitIdle ==
    [pc |-> "idle", cfg |-> cfgEmpty, access |-> "none",
     reads |-> [r \in Roles |-> "none"], order |-> <<>>,
     load |-> "none", contents |-> <<>>, all |-> "none"]

----------------------------------------------------------------------------
(* init *)

allFulfilled_loadOnly(rec) == rec.load = "resolved"

\* Promise.all(queue) fulfils once the fs.access promise and the promise of
\* loadConfiguration have both fulfilled
allFulfilled(rec) == rec.access = "ok" /\ rec.load = "resolved"

\* the handlers attached to Promise.all(queue), run once it settles;
\* rec is the record of invocation i after the I/O result was stored
InitSettle(i, rec) ==
    IF rec.all # "pending"
    THEN /\ inits' = [inits EXCEPT ![i] = rec]
         /\ UNCHANGED <<Certificates, Configuration, crashed>>
    ELSE IF rec.access = "err" \/ rec.load = "rejected"
    THEN \* .catch rethrows inside the chain: an unhandled rejection
         /\ inits' = [inits EXCEPT ![i] = [rec EXCEPT !.all = "rejected", !.pc = "failed"]]
         /\ \E b \in {crashed, TRUE} : crashed' = b
         /\ UNCHANGED <<Certificates, Configuration>>
    ELSE IF allFulfilled(rec)
    THEN /\ inits' = [inits EXCEPT ![i] = [rec EXCEPT !.all = "resolved", !.pc = "done"]]
         /\ Configuration' = [Configuration EXCEPT !.passModelsDir = ModelsDir]
         /\ Certificates' =
              [status |-> TRUE,
               wwdr |-> parseFile(rec.cfg, rec.contents[1]),
               signerCert |-> parseFile(rec.cfg, rec.contents[2]),
               signerKey |-> parseFile(rec.cfg, rec.contents[3])]
         /\ UNCHANGED crashed
    ELSE /\ inits' = [inits EXCEPT ![i] = rec]
         /\ UNCHANGED <<Certificates, Configuration, crashed>>

InitCall(i, cfg) ==
    /\ ~crashed
    /\ inits[i].pc = "idle"
    /\ \A j \in InitIds : j < i => inits[j].pc # "idle"
    /\ IF Certificates.status \/ ~cfg.nonEmpty
       THEN \* throws before anything is started
            inits' = [inits EXCEPT ![i] = [@ EXCEPT !.pc = "threw", !.cfg = cfg]]
       ELSE IF ~cfg.filesOk
       THEN \* fs.access is issued, then loadConfiguration throws
            inits' = [inits EXCEPT ![i] =
                        [@ EXCEPT !.pc = "threw", !.cfg = cfg, !.access = "pending"]]
       ELSE inits' = [inits EXCEPT ![i] =
                        [@ EXCEPT !.pc = "loading", !.cfg = cfg, !.access = "pending",
                                  !.reads = [r \in Roles |-> "pending"],
                                  !.load = "pending", !.all = "pending"]]
    /\ UNCHANGED <<Certificates, Configuration, gens, crashed>>
    /\ UNCHANGED mergeVars
    /\ UNCHANGED fieldVars

\* callback of fs.access
AccessDone(i, ok) ==
    /\ ~crashed
    /\ inits[i].access = "pending"
    /\ LET rec == [inits[i] EXCEPT !.access = IF ok THEN "ok" ELSE "err"]
       IN IF rec.pc = "threw"
          THEN \* nothing is attached to the promise
               /\ inits' = [inits EXCEPT ![i] = rec]
               /\ IF ok THEN crashed' = crashed
                  ELSE \E b \in {crashed, TRUE} : crashed' = b
               /\ UNCHANGED <<Certificates, Configuration>>
          ELSE InitSettle(i, rec)
    /\ UNCHANGED gens
    /\ UNCHANGED mergeVars
    /\ UNCHANGED fieldVars

\* callback of one fs.readFile issued by async.concat; once the final
\* callback has run with an error the remaining callbacks have no effect
ReadFileDone(i, r, ok) ==
    /\ ~crashed
    /\ inits[i].reads[r] = "pending"
    /\ inits[i].load = "pending"
    /\ LET rec1 == [inits[i] EXCEPT !.reads[r] = IF ok THEN "ok" ELSE "err",
                                   !.order = IF ok THEN Append(@, r) ELSE @]
           allRead == \A q \in Roles : rec1.reads[q] = "ok"
       IN IF ~ok
          THEN InitSettle(i, [rec1 EXCEPT !.load = "rejected"])
          ELSE IF ~allRead
          THEN /\ inits' = [inits EXCEPT ![i] = rec1]
               /\ UNCHANGED <<Certificates, Configuration, crashed>>
          ELSE IF mapThrows(rec1.cfg)
          THEN \* thrown from the callback of async.concat: nothing settles
               /\ inits' = [inits EXCEPT ![i] = [rec1 EXCEPT !.load = "hung", !.pc = "hung"]]
               /\ crashed' = TRUE
               /\ UNCHANGED <<Certificates, Configuration>>
          ELSE \E contents \in concatOrders(rec1.order) :
                  InitSettle(i, [rec1 EXCEPT !.load = "resolved", !.contents = contents])
    /\ UNCHANGED gens
    /\ UNCHANGED mergeVars
    /\ UNCHANGED fieldVars

----------------------------------------------------------------------------
(* The models directory (read only) *)

DSStore == <<".","D","S">>
Icon == <<"i","c","o","n",".","p","n","g">>
Logo == <<"l","o","g","o",".","p","n","g">>
PassBg == <<"P","a","s","s","B","g">>

\* fs.readdir of <passModelsDir>/<name>.pass
KnownModels == {"regen", "bare", "hidden", "nopass", "broken"}

ModelFiles(name) ==
    CASE name = "regen" -> <<DSStore, PassJson, ManifestJson, SignatureName,
                               PassBg, Icon, Logo>>
      [] name = "bare" -> <<PassJson>>
      [] name = "hidden" -> <<DSStore>>
      [] name = "nopass" -> <<Icon>>
      [] name = "broken" -> <<PassJson, Icon>>

\* the bytes of <name>.pass/pass.json
PassText(name) ==
    CASE name = "regen" -> TextSpaced
      [] name = "bare" -> TextCompact
      [] name = "broken" -> BadText
      [] OTHER -> TextCompact

ModelNames == {JStr(n) : n \in {"regen", "bare", "hidden", "nopass", "broken", "ghost", ""}}
                \cup {JNum("42"), Undefined}

GenQueries ==
    {NoQuery, Query(<<>>),
     Query([k \in {"serialNumber", "webServiceURL"} |-> JStr("A")])}

\* hex SHA-1 of some content
sha1Hex(content) == [t |-> "string", v |-> <<"sha1", content>>]

\* the bytes of an asset file of a model
FileBytes(model, file) == <<"bytes", model, file>>

----------------------------------------------------------------------------
(* generatePass: records *)

Teapot == 418

MsgNoName == "A string model name must be provided in order to continue."
MsgNoModel == "Provided model name doesn't match with any model in the folder."
MsgUninit == "Model provided matched but unitialized."
MsgNoPass == "I'm a teapot. How am I supposed to serve you pass without pass.json"
MsgManifest == "Unable to compile manifest."
MsgBuffer == "pass.json Buffer is not a valid buffer. Unable to continue."

Pending ==
    [state |-> "pending", status |-> "none", message |-> "none",
     cause |-> <<>>, ecode |-> 0]

NoSignature == [built |-> FALSE, content |-> BadText, certificates |-> <<>>, key |-> Absent]

GenIdle ==
    [pc |-> "idle", modelName |-> Undefined, overrides |-> NoQuery, ready |-> FALSE,
     list |-> <<>>, tasks |-> <<>>, eachDone |-> FALSE,
     manifest |-> <<>>, archive |-> <<>>, signature |-> NoSignature,
     promise |-> Pending, rejects |-> 0, resolves |-> 0, log |-> <<>>]

Ev(e, name) == [ev |-> e, name |-> name]

\* reject({status: false, error: {message, ecode: 418}}); a settled promise
\* ignores further calls
Reject(rec, message, cause) ==
    [rec EXCEPT !.rejects = @ + 1,
                !.promise = IF @.state = "pending"
                            THEN [state |-> "rejected", status |-> "false",
                                  message |-> message, cause |-> cause, ecode |-> Teapot]
                            ELSE @]

\* an exception thrown inside the promise executor rejects with the Error
RejectWithError(rec, name) ==
    [rec EXCEPT !.promise = IF @.state = "pending"
                            THEN [state |-> "rejected", status |-> "none",
                                  message |-> name, cause |-> <<name>>, ecode |-> 0]
                            ELSE @]

\* success({status: true, content: passStream})
Resolve(rec) ==
    [rec EXCEPT !.resolves = @ + 1,
                !.promise = IF @.state = "pending"
                            THEN [state |-> "resolved", status |-> "true",
                                  message |-> "none", cause |-> <<>>, ecode |-> 0]
                            ELSE @]

----------------------------------------------------------------------------
(* Signature builder *)

\* addCertificate / addSigner / sign throw unless the two certificate slots
\* hold certificates and the key slot holds a private key
createSignatureThrows(manifest) ==
    \/ manifest.t \notin {"object", "string"}
    \/ Certificates.wwdr.kind # "cert"
    \/ Certificates.signerCert.kind # "cert"
    \/ Certificates.signerKey.kind # "key"

createSignature_other(manifest) ==
    [built |-> TRUE,
     content |-> JSONText(1, IF manifest.t = "object" THEN StringifyPairs(manifest.v)
                             ELSE manifest.v.pairs),
     certificates |-> <<Certificates.wwdr, Certificates.signerCert>>,
     key |-> Certificates.signerKey]

\* the signed data: its content and the identity material it was built with
createSignature(manifest) ==
    [built |-> TRUE,
     content |-> IF manifest.t = "object" THEN JSONstringify(manifest.v) ELSE manifest.v,
     certificates |-> <<Certificates.wwdr, Certificates.signerCert>>,
     key |-> Certificates.signerKey]

----------------------------------------------------------------------------
(* generatePass *)

modelOf(rec) == rec.modelName.v

eligible(list) == SelectSeq(list, LAMBDA f : ~excludedName(f))

eachFinished_any(rec) == \E f \in DOMAIN rec.tasks : rec.tasks[f] = "ended"

\* async.each runs the final callback without an error once every iteratee
\* has called back
eachFinished(rec) == \A f \in DOMAIN rec.tasks : rec.tasks[f] = "ended"

eachFirst_always(rec) == TRUE

\* async.each runs the final callback at most once
eachFirst(rec) == ~rec.eachDone

\* end(undefined): inChain tells whether it runs synchronously inside
\* _afterJSONParse (no file to digest) or from a stream event
endOk(rec, inChain) ==
    LET text == JSONstringify(rec.manifest)
        r1 == [rec EXCEPT !.eachDone = TRUE,
                          !.archive = Append(@, [name |-> ManifestJson, content |-> text]),
                          !.log = @ \o <<Ev("serialize", <<>>), Ev("append", ManifestJson),
                                         Ev("sign", <<>>)>>]
    IN IF createSignatureThrows(JObj(rec.manifest))
       THEN IF inChain
            THEN [Reject(r1, MsgBuffer, <<"signing">>) EXCEPT !.pc = "done"]
            ELSE [r1 EXCEPT !.pc = "escaped"]
       ELSE [r1 EXCEPT !.signature = createSignature(JObj(rec.manifest)),
                       !.archive = Append(@, [name |-> SignatureName,
                                              content |-> createSignature(JObj(rec.manifest)).content]),
                       !.log = @ \o <<Ev("append", SignatureName), Ev("finalize", <<>>)>>,
                       !.pc = "finalizing"]

\* end(error)
endError(rec, e) == [Reject([rec EXCEPT !.eachDone = TRUE], MsgManifest, e) EXCEPT !.pc = "done"]

\* the executor of the returned promise
GenerateCall(c, modelName, overrides) ==
    /\ ~crashed
    /\ gens[c].pc = "idle"
    /\ \A j \in GenDom : j < c => gens[j].pc # "idle"
    /\ LET rec == [gens[c] EXCEPT !.modelName = modelName, !.overrides = overrides,
                                  !.ready = Certificates.status]
       IN IF ~Truthy(modelName) \/ modelName.t # "string"
          THEN gens' = [gens EXCEPT ![c] = [Reject(rec, MsgNoName, <<>>) EXCEPT !.pc = "done"]]
          ELSE IF Configuration.passModelsDir = "null"
          THEN \* path.resolve(null, ...) throws a TypeError
               gens' = [gens EXCEPT ![c] = [RejectWithError(rec, "TypeError") EXCEPT !.pc = "done"]]
          ELSE gens' = [gens EXCEPT ![c] = [rec EXCEPT !.pc = "readdir"]]
    /\ UNCHANGED <<Certificates, Configuration, inits, crashed>>
    /\ UNCHANGED mergeVars
    /\ UNCHANGED fieldVars

\* callback of fs.readdir
ReaddirDone(c) ==
    /\ ~crashed
    /\ gens[c].pc = "readdir"
    /\ LET rec == gens[c]
           list == removeHiddenFiles(ModelFiles(modelOf(rec)))
       IN IF modelOf(rec) \notin KnownModels
          THEN gens' = [gens EXCEPT ![c] = [Reject(rec, MsgNoModel, <<>>) EXCEPT !.pc = "done"]]
          ELSE IF Len(list) = 0
          THEN gens' = [gens EXCEPT ![c] = [Reject(rec, MsgUninit, <<>>) EXCEPT !.pc = "done"]]
          ELSE IF ~Includes(list, PassJson)
          THEN gens' = [gens EXCEPT ![c] = [Reject(rec, MsgNoPass, <<>>) EXCEPT !.pc = "done"]]
          ELSE gens' = [gens EXCEPT ![c] = [rec EXCEPT !.pc = "readpass", !.list = list]]
    /\ UNCHANGED <<Certificates, Configuration, inits, crashed>>
    /\ UNCHANGED mergeVars
    /\ UNCHANGED fieldVars

\* _afterJSONParse up to the end of the async.each loop
afterJSONParse(rec, passFileBuffer) ==
    LET files == eligible(rec.list)
        r1 == [rec EXCEPT
                 !.manifest = <<<<PassJson, sha1Hex(passFileBuffer)>>>>,
                 !.archive = <<[name |-> PassJson, content |-> passFileBuffer]>>
                             \o [i \in 1..Len(files) |->
                                   [name |-> files[i], content |-> FileBytes(modelOf(rec), files[i])]],
                 !.log = <<Ev("append", PassJson), Ev("digest", PassJson)>>
                         \o [i \in 1..Len(files) |-> Ev("append", files[i])],
                 !.tasks = [f \in {files[i] : i \in 1..Len(files)} |-> "pending"],
                 !.pc = "hashing"]
    IN IF eachFinished(r1) THEN endOk(r1, TRUE) ELSE r1

\* _parsePassJSONBuffer: callback of fs.readFile of pass.json (err is not
\* looked at), and the handlers chained on editPassStructure
ReadPassDone(c, ok) ==
    /\ ~crashed
    /\ gens[c].pc = "readpass"
    /\ LET rec == gens[c]
           passStructBuffer == IF ok THEN JBuffer(PassText(modelOf(rec))) ELSE Undefined
       IN IF filterThrows(rec.overrides)
          THEN \* TypeError outside of any promise
               /\ gens' = [gens EXCEPT ![c] = [rec EXCEPT !.pc = "escaped"]]
               /\ crashed' = TRUE
          ELSE LET edited == editPassStructure(JObj(filterPassOptions(rec.overrides)),
                                               passStructBuffer)
               IN /\ gens' = [gens EXCEPT ![c] =
                       IF edited.state = "rejected"
                       THEN [Reject(rec, MsgBuffer, <<edited.reason>>) EXCEPT !.pc = "done"]
                       ELSE afterJSONParse(rec, edited.value)]
                  /\ UNCHANGED crashed
    /\ UNCHANGED <<Certificates, Configuration, inits>>
    /\ UNCHANGED mergeVars
    /\ UNCHANGED fieldVars

\* "end" of the read stream of one file
TaskEnd(c, f) ==
    /\ ~crashed
    /\ f \in DOMAIN gens[c].tasks
    /\ gens[c].tasks[f] = "pending"
    /\ LET rec == gens[c]
           r1 == [rec EXCEPT !.tasks[f] = "ended",
                             !.manifest = Assign(@, f, sha1Hex(FileBytes(modelOf(rec), f))),
                             !.log = Append(@, Ev("digest", f))]
           r2 == IF eachFirst(r1) /\ eachFinished(r1) THEN endOk(r1, FALSE) ELSE r1
       IN /\ gens' = [gens EXCEPT ![c] = r2]
          /\ crashed' = (r2.pc = "escaped")
    /\ UNCHANGED <<Certificates, Configuration, inits>>
    /\ UNCHANGED mergeVars
    /\ UNCHANGED fieldVars

\* "error" of the read stream of one file
TaskError(c, f) ==
    /\ ~crashed
    /\ f \in DOMAIN gens[c].tasks
    /\ gens[c].tasks[f] = "pending"
    /\ LET rec == gens[c]
           r1 == [rec EXCEPT !.tasks[f] = "failed"]
       IN gens' = [gens EXCEPT ![c] =
                     IF eachFirst(r1) THEN endError(r1, <<"EIO">> \o f) ELSE r1]
    /\ UNCHANGED <<Certificates, Configuration, inits, crashed>>
    /\ UNCHANGED mergeVars
    /\ UNCHANGED fieldVars

\* archive.finalize() fulfils
FinalizeDone(c) ==
    /\ ~crashed
    /\ gens[c].pc = "finalizing"
    /\ gens' = [gens EXCEPT ![c] = [Resolve(@) EXCEPT !.pc = "done"]]
    /\ UNCHANGED <<Certificates, Configuration, inits, crashed>>
    /\ UNCHANGED mergeVars
    /\ UNCHANGED fieldVars

\* archive.finalize() rejects: no handler is attached
FinalizeError(c) ==
    /\ ~crashed
    /\ gens[c].pc = "finalizing"
    /\ gens' = [gens EXCEPT ![c] = [@ EXCEPT !.pc = "stuck"]]
    /\ \E b \in {crashed, TRUE} : crashed' = b
    /\ UNCHANGED <<Certificates, Configuration, inits>>
    /\ UNCHANGED mergeVars
    /\ UNCHANGED fieldVars

----------------------------------------------------------------------------
(* FieldsContainer (fields.js) *)

MaxCalls == 4
MaxPush == 2

FieldKeys == {"a", "2"}

\* a field object; valid is the verdict of schema.isValid(f, "field")
Fields == [key : FieldKeys, valid : BOOLEAN]

\* [] given as the only argument: an object without a key
EmptyArray == [key |-> "undefined", valid |-> FALSE]

isValid(f) == f.valid

PushLists == UNION {[1..n -> Fields] : n \in 0..MaxPush}

\* -1 stands for a call without an argument (the default of the parameter)
Quantities == {-1, 0, 1, 2, 3}

NoCall == [op |-> "none", args |-> <<>>, quantity |-> -1]

\* JavaScript numbers, as far as pop needs them
NaN == [nan |-> TRUE, n |-> 0]
Num(n) == [nan |-> FALSE, n |-> n]

\* Number(array): "" for no element or an undefined one, the element for
\* one element, NaN for a list "x,y"
arrayToNumber(keys) ==
    IF Len(keys) = 0 THEN Num(0)
    ELSE IF Len(keys) > 1 THEN NaN
    ELSE IF keys[1] = "undefined" THEN Num(0)
    ELSE IF keys[1] = "2" THEN Num(2)
    ELSE NaN

minus(x, q) == IF x.nan THEN NaN ELSE Num(x.n - q)

\* Array.prototype.slice: relative index to absolute index
sliceIndex(len, x) ==
    IF x.nan THEN 0
    ELSE IF x.n < 0 THEN (IF len + x.n < 0 THEN 0 ELSE len + x.n)
    ELSE IF x.n > len THEN len ELSE x.n

slice(seq, start, end) ==
    LET from == sliceIndex(Len(seq), start)
        to == sliceIndex(Len(seq), end)
    IN IF from < to THEN SubSeq(seq, from + 1, to) ELSE <<>>

sliceFrom(seq, start) == slice(seq, start, Num(Len(seq)))

\* the callback of fields.filter, applied from left to right: keys is
\* this.uniqueKeys, kept the elements the callback returned true for
RECURSIVE filterFields(_, _, _)
filterFields(rest, keys, kept) ==
    IF Len(rest) = 0 THEN [keys |-> keys, validFields |-> kept]
    ELSE LET f == rest[1]
         IN IF Includes(keys, f.key)
            THEN filterFields(Tail(rest), keys, kept)
            ELSE filterFields(Tail(rest), Append(keys, f.key),
                              IF isValid(f) THEN Append(kept, f) ELSE kept)

FieldsInit ==
    /\ uniqueKeys = <<>>
    /\ fields = <<>>
    /\ returned = Undefined
    /\ lastCall = NoCall
    /\ calls = 0

\* push(...fields), or push([...]) when asArray
Push(list, asArray) ==
    /\ calls < MaxCalls
    /\ LET args == IF asArray /\ Len(list) = 0 THEN <<EmptyArray>> ELSE list
           r == filterFields(args, uniqueKeys, <<>>)
       IN /\ uniqueKeys' = r.keys
          /\ fields' = fields \o r.validFields
          /\ returned' = [t |-> "number", v |-> Len(r.validFields)]
          /\ lastCall' = [op |-> "push", args |-> args, quantity |-> -1]
    /\ calls' = calls + 1
    /\ UNCHANGED engineVars
    /\ UNCHANGED mergeVars

\* pop(quantity)
Pop(quantity) ==
    /\ calls < MaxCalls
    /\ IF Len(fields) = 0
       THEN /\ returned' = Undefined
            /\ UNCHANGED <<uniqueKeys, fields>>
       ELSE IF quantity > -1
       THEN /\ returned' = [t |-> "array", v |-> sliceFrom(fields, Num(quantity))]
            /\ fields' = slice(fields, Num(0), Num(Len(fields) - quantity))
            /\ uniqueKeys' = slice(uniqueKeys, Num(0),
                                   minus(arrayToNumber(uniqueKeys), quantity))
       ELSE /\ uniqueKeys' = SubSeq(uniqueKeys, 1, Len(uniqueKeys) - 1)
            /\ fields' = SubSeq(fields, 1, Len(fields) - 1)
            /\ returned' = [t |-> "field", v |-> fields[Len(fields)]]
    /\ lastCall' = [op |-> "pop", args |-> <<>>, quantity |-> quantity]
    /\ calls' = calls + 1
    /\ UNCHANGED engineVars
    /\ UNCHANGED mergeVars

----------------------------------------------------------------------------
(* Specifications *)

EngineInit ==
    /\ Certificates = [status |-> FALSE, wwdr |-> Absent, signerCert |-> Absent,
                       signerKey |-> Absent]
    /\ Configuration = [passModelsDir |-> "null"]
    /\ inits = [i \in InitIds |-> InitIdle]
    /\ gens = [c \in GenDom |-> GenIdle]
    /\ crashed = FALSE

MergeIdle ==
    /\ mQuery = NoQuery
    /\ mBase = Undefined
    /\ mOpts = Undefined
    /\ mOut = NotStarted
    /\ mPc = "off"

Init == EngineInit /\ MergeIdle /\ FieldsInit

InitActions(ids, cfgs) ==
    \/ \E i \in ids, cfg \in cfgs : InitCall(i, cfg)
    \/ \E i \in ids, ok \in BOOLEAN : AccessDone(i, ok)
    \/ \E i \in ids, r \in Roles, ok \in BOOLEAN : ReadFileDone(i, r, ok)

\* the callbacks of invocation c that the event loop may run next
GenStep(c) ==
    \/ ReaddirDone(c)
    \/ \E ok \in BOOLEAN : ReadPassDone(c, ok)
    \/ \E f \in {Icon, Logo, PassBg} : TaskEnd(c, f)
    \/ \E f \in {Icon, Logo, PassBg} : TaskError(c, f)
    \/ FinalizeDone(c)
    \/ FinalizeError(c)

GenActions(ids) ==
    \/ \E c \in ids, m \in ModelNames, q \in GenQueries : GenerateCall(c, m, q)
    \/ \E c \in ids : GenStep(c)

\* the whole engine: every init and generatePass step interleaved.  The
\* properties below are checked under the narrower specifications that
\* follow, each of which keeps the steps of the part it is about.
Next == InitActions(InitIds, Configs) \/ GenActions(GenIds)

Spec == Init /\ [][Next]_vars

\* init invocations alone
NextInit == InitActions(InitIds, Configs)

SpecInit == Init /\ [][NextInit]_vars

\* two init invocations, with any configuration, whose callbacks interleave
NextTwoInits == InitActions(PairIds, Configs)

SpecTwoInits == Init /\ [][NextTwoInits]_vars

\* one init invocation with a complete configuration, then generatePass
NextGen == InitActions({1}, {cfgGood, cfgWrongSecret}) \/ GenActions(GenIds)

SpecGen == Init /\ [][NextGen]_vars

\* one init invocation with a complete configuration, then two generatePass
\* invocations whose callbacks interleave
NextPair == InitActions({1}, {cfgGood, cfgWrongSecret}) \/ GenActions(PairIds)

SpecPair == Init /\ [][NextPair]_vars

\* the filter and the merger applied to every bounded input
InitMerge ==
    /\ EngineInit
    /\ FieldsInit
    /\ mQuery \in Queries
    /\ mBase \in BaseBuffers
    /\ mOpts = Undefined
    /\ mOut = NotStarted
    /\ mPc = "start"

NextMerge == MergeFilter \/ MergeEdit

SpecMerge == InitMerge /\ [][NextMerge]_vars

\* method calls on one FieldsContainer
NextFields ==
    \/ \E list \in PushLists, asArray \in BOOLEAN : Push(list, asArray)
    \/ \E quantity \in Quantities : Pop(quantity)

SpecFields == Init /\ [][NextFields]_vars

----------------------------------------------------------------------------
(* Properties: the engine facade *)

\* C1: a generatePass call made while the engine is ready, with a string
\* modelName and with overrides supplied or omitted, is never left with an
\* exception escaped outside the promise or with a promise nothing can
\* settle any more, and when it settles it is either resolved with status
\* true or rejected with status false and ecode 418.
C1_EveryCallSettles ==
    \A c \in GenIds :
        (gens[c].ready /\ gens[c].modelName.t = "string") =>
            /\ gens[c].pc \notin {"escaped", "stuck"}
            /\ gens[c].promise.state = "resolved" => gens[c].promise.status = "true"
            /\ gens[c].promise.state = "rejected" =>
                   (gens[c].promise.status = "false" /\ gens[c].promise.ecode = Teapot)

loadStarted(i) == inits[i].load # "none"

\* C2: once one init call has been accepted (its load of identity material
\* was started), no other init call starts a load.
C2_SecondInitFails ==
    \A i, j \in InitIds :
        (i < j /\ loadStarted(i)) => ~loadStarted(j)

Lifecycle ==
    IF Certificates.status THEN "Ready"
    ELSE IF \E i \in InitIds : inits[i].all = "pending" THEN "Initializing"
    ELSE IF \E i \in InitIds : inits[i].pc = "failed" THEN "Failed"
    ELSE "Uninitialized"

LifecycleSteps ==
    {<<"Uninitialized", "Initializing">>, <<"Initializing", "Ready">>,
     <<"Initializing", "Failed">>}

\* C3: the lifecycle only moves Uninitialized -> Initializing -> Ready or
\* Uninitialized -> Initializing -> Failed; Ready and Failed are never left.
C3_LifecycleIsTerminal ==
    [][Lifecycle' = Lifecycle \/ <<Lifecycle, Lifecycle'>> \in LifecycleSteps]_vars

----------------------------------------------------------------------------
(* Properties: manifest, signature and archive of one call *)

ArchiveNames(rec) == {rec.archive[i].name : i \in 1..Len(rec.archive)}

\* the JSON text stored as the archive entry manifest.json
EmbeddedManifest(rec) ==
    rec.archive[CHOOSE i \in 1..Len(rec.archive) : rec.archive[i].name = ManifestJson].content

Succeeded(rec) == rec.promise.state = "resolved"

C4_Matches(f) ==
    \E pat \in {PatManifest, PatSignature, PatPass} :
        \E i \in 1..Len(f) : \E j \in i..Len(f) :
            [k \in 1..(j - i + 1) |-> Lower(f[i + k - 1])] = pat

C4_Eligible(model) ==
    {f \in {ModelFiles(model)[i] : i \in 1..Len(ModelFiles(model))} :
        f[1] # "." /\ ~C4_Matches(f)}

\* C4: in a call that resolved, the keys of the embedded manifest are the
\* archive entry names minus manifest.json and signature, and are exactly
\* pass.json plus the N listed files that are neither hidden nor matched by
\* /manifest|signature|pass/i: N+1 entries, none of them manifest.json or
\* signature, and no archive entry name occurs twice.
C4_ManifestCoversArchive ==
    \A c \in GenIds :
        Succeeded(gens[c]) =>
            LET rec == gens[c]
                keys == Keys(EmbeddedManifest(rec).pairs)
            IN /\ keys = ArchiveNames(rec) \ {ManifestJson, SignatureName}
               /\ keys = {PassJson} \cup C4_Eligible(modelOf(rec))
               /\ Len(EmbeddedManifest(rec).pairs) = Cardinality(C4_Eligible(modelOf(rec))) + 1
               /\ Len(rec.archive) = Cardinality(ArchiveNames(rec))
               /\ ManifestJson \notin keys
               /\ SignatureName \notin keys

C4_Witness ==
    \E c \in GenIds :
        /\ Succeeded(gens[c])
        /\ modelOf(gens[c]) = "regen"
        /\ Cardinality(C4_Eligible("regen")) = 2
        /\ Len(gens[c].list) > 3

Logged(rec, e) == \E i \in 1..Len(rec.log) : rec.log[i].ev = e

C5_LogOrder(rec) ==
    \A i \in 1..Len(rec.log) :
        /\ rec.log[i].ev = "sign" =>
              \A f \in DOMAIN rec.tasks :
                  /\ rec.tasks[f] = "ended"
                  /\ \E j \in 1..(i - 1) : rec.log[j] = Ev("digest", f)
        /\ (\/ rec.log[i].ev = "digest"
            \/ (rec.log[i].ev = "append"
                  /\ rec.log[i].name \notin {ManifestJson, SignatureName})) =>
              ~\E j \in 1..(i - 1) : rec.log[j].ev = "serialize"
        /\ rec.log[i].ev = "finalize" =>
              /\ rec.signature.built
              /\ \E j \in 1..(i - 1) : rec.log[j].ev = "sign"

C5_Frozen(c) ==
    Logged(gens[c], "serialize") =>
        /\ gens'[c].manifest = gens[c].manifest
        /\ ArchiveNames(gens'[c]) \ {ManifestJson, SignatureName}
             = ArchiveNames(gens[c]) \ {ManifestJson, SignatureName}

\* C5: within one call, signing starts only after every per-file digest task
\* has ended successfully; once the manifest has been serialized no manifest
\* entry is written and no file entry is added to the archive; the archive
\* is finalized only after the signature was built.
C5_ManifestFrozenBeforeSigning ==
    /\ [](\A c \in GenIds : C5_LogOrder(gens[c]))
    /\ [][\A c \in GenIds : C5_Frozen(c)]_vars

C5_Witness ==
    \E c \in GenIds :
        /\ Logged(gens[c], "finalize")
        /\ Cardinality(DOMAIN gens[c].tasks) = 2
        /\ gens[c].manifest[2][1] = Logo

taskFailed(rec) == \E f \in DOMAIN rec.tasks : rec.tasks[f] = "failed"

\* C7: a call one of whose digest tasks reported a read error is rejected,
\* by exactly one call of reject, with ecode 418 and a message that names
\* the error of a failed task; it never resolves, never serializes or signs
\* a manifest and never finalizes the archive, whatever the other tasks do.
C7_ReadErrorRejectsOnce ==
    \A c \in GenIds :
        taskFailed(gens[c]) =>
            /\ gens[c].promise.state = "rejected"
            /\ gens[c].promise.status = "false"
            /\ gens[c].promise.ecode = Teapot
            /\ gens[c].promise.message = MsgManifest
            /\ \E f \in DOMAIN gens[c].tasks :
                   /\ gens[c].tasks[f] = "failed"
                   /\ gens[c].promise.cause = <<"EIO">> \o f
            /\ gens[c].rejects = 1
            /\ gens[c].resolves = 0
            /\ ~gens[c].signature.built
            /\ ~Logged(gens[c], "serialize")
            /\ ~Logged(gens[c], "sign")
            /\ ~Logged(gens[c], "finalize")
            /\ gens[c].pc = "done"

C7_Witness ==
    \E c \in GenIds :
        /\ gens[c].tasks # <<>>
        /\ \A f \in DOMAIN gens[c].tasks : gens[c].tasks[f] # "pending"
        /\ \E f \in DOMAIN gens[c].tasks : gens[c].tasks[f] = "failed"
        /\ \E f \in DOMAIN gens[c].tasks : gens[c].tasks[f] = "ended"
        /\ gens[c].promise.state = "rejected"

----------------------------------------------------------------------------
(* Properties: the override filter and the descriptor merger *)

Merged == JSONparse(mOut.value.v)

BaseDocument == JSONparse(mBase.v)

mergeDone == mPc = "done" /\ mOut.state = "resolved" /\ mOut.value.t = "buffer"

\* C8: with overrides absent, empty, or holding no key that survives the
\* filter, the merger hands back the bytes of the model's pass.json.
C8_EmptyOverridesKeepBytes ==
    (/\ mPc \in {"done", "threw"}
     /\ mBase.t = "buffer"
     /\ (~mQuery.present \/ filterFrom(supportedOptions, mQuery.obj) = <<>>)) =>
        /\ mOut.state = "resolved"
        /\ mOut.value.t = "buffer"
        /\ mOut.value.v = mBase.v

\* C9: a key of the overrides that is not one of the six recognized keys
\* never changes the merged descriptor: the merged descriptor has the key
\* only if the base descriptor had it, and then with the base value.
C9_UnrecognizedKeysIgnored ==
    mergeDone =>
        \A k \in DOMAIN mQuery.obj :
            k \notin {"serialNumber", "userInfo", "expirationDate", "locations",
                      "authenticationToken", "barcode"} =>
                /\ HasKey(Merged, k) => HasKey(BaseDocument, k)
                /\ Lookup(Merged, k) = Lookup(BaseDocument, k)

C9_Witness ==
    /\ mergeDone
    /\ "webServiceURL" \in DOMAIN mQuery.obj
    /\ Truthy(mQuery.obj["webServiceURL"])
    /\ HasKey(BaseDocument, "webServiceURL")
    /\ mQuery.obj["webServiceURL"] # Lookup(BaseDocument, "webServiceURL")
    /\ "serialNumber" \in DOMAIN mQuery.obj

\* C10 as stated: every recognized key present in the overrides has, in the
\* merged descriptor, exactly the value the caller supplied.
C10_RecognizedKeysOverride ==
    mergeDone =>
        \A k \in DOMAIN mQuery.obj :
            k \in RecognizedKeys => Lookup(Merged, k) = mQuery.obj[k]

\* C10 as amended: every recognized key present in the overrides with a
\* truthy value that JSON can represent has, in the merged descriptor,
\* exactly that value, whatever the base held; a recognized key with a falsy
\* value leaves the base descriptor's entry for that key as it was.
C10_TruthyRecognizedKeysOverride ==
    mergeDone =>
        \A k \in DOMAIN mQuery.obj :
            k \in RecognizedKeys =>
                /\ (Truthy(mQuery.obj[k]) /\ ToJSONValue(mQuery.obj[k]) = mQuery.obj[k]) =>
                       Lookup(Merged, k) = mQuery.obj[k]
                /\ ~Truthy(mQuery.obj[k]) =>
                       /\ HasKey(Merged, k) = HasKey(BaseDocument, k)
                       /\ Lookup(Merged, k) = Lookup(BaseDocument, k)

C10_Witness ==
    /\ mergeDone
    /\ "serialNumber" \in DOMAIN mQuery.obj
    /\ Truthy(mQuery.obj["serialNumber"])
    /\ HasKey(BaseDocument, "serialNumber")
    /\ Lookup(BaseDocument, "serialNumber") # mQuery.obj["serialNumber"]
    /\ Lookup(Merged, "serialNumber") = mQuery.obj["serialNumber"]
    /\ "barcode" \in DOMAIN mQuery.obj
    /\ ~Truthy(mQuery.obj["barcode"])

\* C11: the merge leaves every top-level key of the base descriptor that is
\* not an accepted override key with its value, adds no top-level key other
\* than the accepted override keys, and replaces the value of an overridden
\* key as a whole (no deep merge).
C11_MergeIsShallowFrame ==
    mergeDone =>
        /\ \A k \in Keys(BaseDocument) \ Keys(mOpts.v) :
               /\ HasKey(Merged, k)
               /\ Lookup(Merged, k) = Lookup(BaseDocument, k)
        /\ Keys(Merged) \subseteq Keys(BaseDocument) \cup Keys(mOpts.v)
        /\ \A k \in Keys(mOpts.v) :
               /\ HasKey(Merged, k)
               /\ Lookup(Merged, k) = ToJSONValue(Lookup(mOpts.v, k))

C11_Witness ==
    /\ mergeDone
    /\ Lookup(BaseDocument, "barcode").t = "object"
    /\ Lookup(mOpts.v, "barcode").t = "object"
    /\ Lookup(mOpts.v, "barcode") # Lookup(BaseDocument, "barcode")
    /\ Lookup(Merged, "barcode") = Lookup(mOpts.v, "barcode")
    /\ ~HasKey(mOpts.v, "serialNumber")
    /\ Lookup(Merged, "serialNumber") = JStr("B")

----------------------------------------------------------------------------
(* C12 *)

C12_NothingDone(rec) ==
    /\ rec.log = <<>>
    /\ rec.archive = <<>>
    /\ rec.manifest = <<>>
    /\ ~rec.signature.built

\* the entries of a model directory whose name does not start with a dot
C12_Visible(model) ==
    {ModelFiles(model)[i] : i \in {j \in 1..Len(ModelFiles(model)) :
                                     ModelFiles(model)[j][1] # "."}}

\* the message the request of invocation rec has to be answered with, or
\* "none" if the request is well formed
C12_Class(rec) ==
    IF rec.modelName = Undefined \/ rec.modelName.t # "string" THEN MsgNoName
    ELSE IF modelOf(rec) \notin KnownModels THEN MsgNoModel
    ELSE IF C12_Visible(modelOf(rec)) = {} THEN MsgUninit
    ELSE IF PassJson \notin C12_Visible(modelOf(rec)) THEN MsgNoPass
    ELSE "none"

C12_Answered(rec) == rec.pc \notin {"idle", "readdir"}

\* C12: generate answers with a promise and classifies a malformed request
\* before any digesting, archiving or signing: a missing or non-string
\* modelName, and (once the module is ready) a non-empty modelName without a
\* directory, a directory with no non-hidden file and a directory without
\* pass.json are each rejected with ecode 418 and their own message, with
\* nothing digested, archived or signed; the three directory messages are
\* pairwise distinct.
C12_MalformedRequestsClassified ==
    /\ MsgNoModel # MsgUninit /\ MsgNoModel # MsgNoPass /\ MsgUninit # MsgNoPass
    /\ \A c \in GenIds :
         LET rec == gens[c]
         IN (/\ C12_Answered(rec)
             /\ rec.modelName # JStr("")
             /\ C12_Class(rec) # "none"
             /\ (rec.ready \/ C12_Class(rec) = MsgNoName))
            => /\ rec.pc = "done"
               /\ rec.promise.state = "rejected"
               /\ rec.promise.ecode = Teapot
               /\ rec.promise.message = C12_Class(rec)
               /\ rec.rejects = 1 /\ rec.resolves = 0
               /\ C12_NothingDone(rec)

C12_Witness ==
    \E c \in GenIds :
        /\ gens[c].ready
        /\ gens[c].modelName = JStr("hidden")
        /\ gens[c].promise.message = MsgUninit
        /\ gens[c].promise.ecode = Teapot

----------------------------------------------------------------------------
(* C13 *)

C13_InFlight(rec) == rec.pc \in {"readdir", "readpass", "hashing", "finalizing"}

\* what invocation rec may hold, computed from its own request only
C13_OwnPass(rec) ==
    editPassStructure(JObj(filterPassOptions(rec.overrides)),
                      JBuffer(PassText(modelOf(rec)))).value

C13_OwnEntry(rec, e) ==
    \/ e.name = PassJson /\ e.content = C13_OwnPass(rec)
    \/ e.name = ManifestJson /\ e.content = JSONstringify(rec.manifest)
    \/ e.name = SignatureName /\ e.content = rec.signature.content
    \/ /\ Includes(ModelFiles(modelOf(rec)), e.name)
       /\ e.content = FileBytes(modelOf(rec), e.name)

C13_OwnDigest(rec, k) ==
    \/ k = PassJson /\ Lookup(rec.manifest, k) = sha1Hex(C13_OwnPass(rec))
    \/ /\ k # PassJson
       /\ Includes(ModelFiles(modelOf(rec)), k)
       /\ Lookup(rec.manifest, k) = sha1Hex(FileBytes(modelOf(rec), k))

\* C13: two generate invocations whose callbacks interleave do not interfere:
\* the manifest and the archive of each hold only entries derived from its own
\* model and overrides, and whatever happened to the other invocation, an
\* invocation that is under way can still take its next step.
C13_CallsAreIsolated ==
    \A c \in PairIds :
        /\ \A i \in 1..Len(gens[c].archive) : C13_OwnEntry(gens[c], gens[c].archive[i])
        /\ \A k \in Keys(gens[c].manifest) : C13_OwnDigest(gens[c], k)
        /\ C13_InFlight(gens[c]) => ENABLED GenStep(c)

----------------------------------------------------------------------------
(* C14 *)

\* C14: once Certificates.status is true, no step writes the root
\* certificate, the signer certificate, the signer key or the models
\* directory again.
C14_IdentityWrittenOnce ==
    [][Certificates.status =>
          /\ Certificates' = Certificates
          /\ Configuration' = Configuration]_vars

----------------------------------------------------------------------------
(* C15 *)

\* a slot that holds neither a certificate nor a key
C15_SlotAbsent(slot) == slot.kind \in {"absent", "null"}

C15_SigningStarts(c) == ~Logged(gens[c], "sign") /\ Logged(gens'[c], "sign")

\* C15: no step starts a signing operation while the root certificate, the
\* signer certificate or the signer key is absent.
C15_NoSigningWithoutIdentity ==
    [][\A c \in GenIds :
          C15_SigningStarts(c) =>
              /\ ~C15_SlotAbsent(Certificates.wwdr)
              /\ ~C15_SlotAbsent(Certificates.signerCert)
              /\ ~C15_SlotAbsent(Certificates.signerKey)]_vars

----------------------------------------------------------------------------
(* C16 *)

C16_BothSucceeded(i) == inits[i].access = "ok" /\ inits[i].load = "resolved"

C16_NothingPopulated ==
    /\ Certificates.wwdr = Absent
    /\ Certificates.signerCert = Absent
    /\ Certificates.signerKey = Absent
    /\ Configuration.passModelsDir = "null"

\* C16: the ready flag is true only if, for some init invocation, both the
\* accessibility check of the models directory and the load of the three
\* identity files have succeeded; as long as the flag is false (a check or a
\* load failed or is still pending) no identity slot and no models directory
\* is populated.
C16_ReadyOnlyAfterBoth ==
    /\ Certificates.status => \E i \in InitIds : C16_BothSucceeded(i)
    /\ ~Certificates.status => C16_NothingPopulated

C16_Witness ==
    /\ Certificates.status
    /\ Configuration.passModelsDir = ModelsDir
    /\ \E i, j \in InitIds :
          /\ C16_BothSucceeded(i)
          /\ inits[j].access = "err"
          /\ inits[j].load = "resolved"

----------------------------------------------------------------------------
(* C20 *)

----------------------------------------------------------------------------
(* C17, C18, C19: FieldsContainer *)

\* C17: whatever pushes and pops were made, no two elements of fields have
\* the same key.
C17_FieldKeysUnique ==
    \A i, j \in 1..Len(fields) : i # j => fields[i].key # fields[j].key

C18_PopStep == calls' = calls + 1 /\ lastCall'.op = "pop"

C18_Min(a, b) == IF a < b THEN a ELSE b

\* C18: pop(quantity) with quantity >= 0 on a container of n > 0 elements
\* removes exactly the last min(quantity, n) elements, keeps the earlier ones
\* in order and returns the amount removed; pop() removes and returns the
\* last element; pop on an empty container returns undefined and changes
\* nothing.
C18_PopRemovesFromTheEnd ==
    [][C18_PopStep =>
         LET n == Len(fields)
             quantity == lastCall'.quantity
             m == C18_Min(quantity, n)
         IN IF n = 0
            THEN /\ returned' = Undefined
                 /\ fields' = fields
                 /\ uniqueKeys' = uniqueKeys
            ELSE IF quantity >= 0
            THEN /\ fields' = SubSeq(fields, 1, n - m)
                 /\ returned' = [t |-> "number", v |-> m]
            ELSE /\ fields' = SubSeq(fields, 1, n - 1)
                 /\ returned' = [t |-> "field", v |-> fields[n]]]_vars

C19_PushStep == calls' = calls + 1 /\ lastCall'.op = "push"

\* the fields of rest, from left to right, that are schema-valid and whose
\* key no element of cur has; cur grows with every field taken
RECURSIVE C19_Appended(_, _)
C19_Appended(rest, cur) ==
    IF Len(rest) = 0 THEN <<>>
    ELSE IF rest[1].valid /\ \A i \in 1..Len(cur) : cur[i].key # rest[1].key
    THEN <<rest[1]>> \o C19_Appended(Tail(rest), Append(cur, rest[1]))
    ELSE C19_Appended(Tail(rest), cur)

\* C19: push appends a field if and only if it is schema-valid and no element
\* currently in fields has its key, and returns the number of elements it
\* appended: a key is reserved by the elements of fields only, not by a field
\* that was refused or has been popped.
C19_PushAppendsValidNewKeys ==
    [][C19_PushStep =>
         /\ fields' = fields \o C19_Appended(lastCall'.args, fields)
         /\ returned' = [t |-> "number", v |-> Len(C19_Appended(lastCall'.args, fields))]]_vars

============================================================================
